---------------------------- MODULE Spec2Model ----------------------------
(***************************************************************************)
(* A model of node-a2conf (src/src/a2conf.ts): the Node tree of an         *)
(* Apache-style configuration, the line parser with Include resolution,    *)
(* the query and mutation methods and the serializer.                      *)
(*                                                                         *)
(* A JavaScript string is a sequence of one-character strings, so that     *)
(* trimming, splitting and the regular expressions of the source are       *)
(* computed character by character.  A Node object is a record of the      *)
(* heap; its identity (the WeakMap id of the source) is its index.         *)
(***************************************************************************)
EXTENDS Naturals, Integers, Sequences, FiniteSets, TLC

VARIABLES
    heap,      \* Seq of Node records: heap[i] is the object with identity i
    stack,     \* the active readText/readFile calls, innermost last
    status,    \* "parsing" | "done" | "raised"
    fsys,      \* the files on disk: file name -> lines
    mode,      \* "text" (fromText) | "file" (fromFile)
    input,     \* fromText: the text; fromFile: the file name
    warnings,  \* the paths console.warn reported, in order
    ops,       \* number of API calls made on the finished tree
    last,      \* the last API call: its name, receiver, arguments and result
    prev       \* the heap as it was before the last API call

vars == <<heap, stack, status, fsys, mode, input, warnings, ops, last, prev>>

-----------------------------------------------------------------------------
(* Strings *)

\* null / undefined where the source has a string-or-null field
Nul == <<"null">>

\* undefined / null where the source has a Node reference
NoNode == 0

Min(S) == CHOOSE x \in S : \A y \in S : x <= y

\* characters String.prototype.trim and the [ \t] classes remove
IsBlank(c) == c \in {" ", "\t"}

RECURSIVE TrimLeft(_)
TrimLeft(s) == IF s # <<>> /\ IsBlank(Head(s)) THEN TrimLeft(Tail(s)) ELSE s

RECURSIVE TrimRight(_)
TrimRight(s) ==
    IF s # <<>> /\ IsBlank(s[Len(s)])
    THEN TrimRight(SubSeq(s, 1, Len(s) - 1))
    ELSE s

trim(s) == TrimRight(TrimLeft(s))

\* String.prototype.indexOf for one character, 1-based; 0 when absent
IndexOf(s, c) ==
    LET I == {i \in 1..Len(s) : s[i] = c}
    IN  IF I = {} THEN 0 ELSE Min(I)

\* the index after the longest run, from index from, of characters not in stop
RunEnd(s, from, stop) ==
    LET I == {i \in from..Len(s) : s[i] \in stop}
    IN  IF I = {} THEN Len(s) + 1 ELSE Min(I)

\* s.split(sep)[0] for a one-character separator
SplitFirst(s, sep) == SubSeq(s, 1, RunEnd(s, 1, {sep}) - 1)

\* s.split(sep) for a one-character separator: always at least one piece
RECURSIVE split(_, _)
split(s, sep) ==
    LET i == IndexOf(s, sep)
    IN  IF i = 0 THEN <<s>>
        ELSE <<SubSeq(s, 1, i - 1)>> \o split(SubSeq(s, i + 1, Len(s)), sep)

UpperCase == <<"A", "B", "C", "D", "E", "F", "G", "H", "I", "J", "K", "L", "M",
               "N", "O", "P", "Q", "R", "S", "T", "U", "V", "W", "X", "Y", "Z">>
LowerCase == <<"a", "b", "c", "d", "e", "f", "g", "h", "i", "j", "k", "l", "m",
               "n", "o", "p", "q", "r", "s", "t", "u", "v", "w", "x", "y", "z">>

\* the lower-case letter of every upper-case one
LowerOf ==
    [c \in {UpperCase[k] : k \in 1..Len(UpperCase)} |->
        LowerCase[CHOOSE k \in 1..Len(UpperCase) : UpperCase[k] = c]]

toLowerCase(s) ==
    [i \in 1..Len(s) |-> IF s[i] \in DOMAIN LowerOf THEN LowerOf[s[i]] ELSE s[i]]

\* String.prototype.includes
includes(s, sub) ==
    \E i \in 1..(Len(s) - Len(sub) + 1) : SubSeq(s, i, i + Len(sub) - 1) = sub

RECURSIVE repeat(_, _)
repeat(s, n) == IF n <= 0 THEN <<>> ELSE s \o repeat(s, n - 1)

RECURSIVE Concat(_)
Concat(ss) == IF ss = <<>> THEN <<>> ELSE Head(ss) \o Concat(Tail(ss))

-----------------------------------------------------------------------------
(* The Node constructor *)

\* `if (this.raw)`: neither undefined nor the empty string
HasRaw(raw) == raw # Nul /\ raw # <<>>

\* raw.match(/^[ \t]*<(?!\/)/)
isOpen(raw) ==
    /\ HasRaw(raw)
    /\ LET t == TrimLeft(raw)
       IN  /\ t # <<>>
           /\ t[1] = "<"
           /\ (Len(t) >= 2 => t[2] # "/")

\* raw.match(/[ \t]*<\//): the pattern is not anchored
isClose(raw) ==
    /\ HasRaw(raw)
    /\ \E i \in 1..(Len(raw) - 1) : raw[i] = "<" /\ raw[i + 1] = "/"

\* raw.match(/(#.*)$/): from the first '#' to the end of the line
Suffix(raw) ==
    IF ~HasRaw(raw) THEN Nul
    ELSE LET i == IndexOf(raw, "#")
         IN  IF i = 0 THEN <<>> ELSE SubSeq(raw, i, Len(raw))

\* the guessed name: raw.trim().split(' ')[0], closed with '>' for a tag
GuessName(raw) ==
    LET n == SplitFirst(trim(raw), " ")
    IN  IF n # <<>> /\ n[1] = "<" /\ n[Len(n)] # ">" THEN n \o <<">">> ELSE n

\* where /[ \t]*<([^ >]+)([^>]*)/ matches: the first '<' followed by a
\* character other than ' ' and '>'; 0 when the pattern does not match
OpenMatch(raw) ==
    LET I == {i \in 1..(Len(raw) - 1) :
                 raw[i] = "<" /\ raw[i + 1] \notin {" ", ">"}}
    IN  IF I = {} THEN 0 ELSE Min(I)

\* where /[ \t]*<(\/[^ >]+)([^>]*)/ matches; 0 when it does not
CloseMatch(raw) ==
    LET I == {i \in 1..(Len(raw) - 2) :
                 raw[i] = "<" /\ raw[i + 1] = "/" /\ raw[i + 2] \notin {" ", ">"}}
    IN  IF I = {} THEN 0 ELSE Min(I)

\* raw.split('#')[0].trim()
CmdLine(raw) == trim(SplitFirst(raw, "#"))

\* new Node({raw, parent, name, includes}); path and line are provenance only
NewNode(raw, parent, name, incl) ==
    LET base == [raw |-> raw, parent |-> parent, content |-> <<>>,
                 section |-> Nul, cmd |-> Nul, args |-> <<>>,
                 suffix |-> Suffix(raw), lastChild |-> NoNode,
                 includes |-> incl,
                 name |-> IF name # Nul /\ name # <<>> THEN name
                          ELSE IF HasRaw(raw) THEN GuessName(raw)
                          ELSE <<"#", "r", "o", "o", "t">>]
    IN  IF ~HasRaw(raw) THEN base
        ELSE IF isOpen(raw) THEN
            LET i == OpenMatch(raw)
            IN  IF i = 0 THEN base
                ELSE LET e1 == RunEnd(raw, i + 1, {" ", ">"})
                         e2 == RunEnd(raw, e1, {">"})
                     IN  [base EXCEPT !.section = SubSeq(raw, i + 1, e1 - 1),
                                      !.args = trim(SubSeq(raw, e1, e2 - 1))]
        ELSE IF isClose(raw) THEN
            LET i == CloseMatch(raw)
            IN  IF i = 0 THEN base
                ELSE [base EXCEPT !.section =
                          SubSeq(raw, i + 1, RunEnd(raw, i + 2, {" ", ">"}) - 1)]
        ELSE
            LET cmdline == CmdLine(raw)
            IN  IF cmdline = <<>> THEN base
                ELSE LET e1 == RunEnd(cmdline, 1, {" ", "\t"})
                     IN  [base EXCEPT !.cmd = SubSeq(cmdline, 1, e1 - 1),
                                      !.args = trim(SubSeq(cmdline, e1, Len(cmdline)))]

-----------------------------------------------------------------------------
(* Tree methods: each takes the heap and returns the heap after the call *)

Range(f) == {f[i] : i \in DOMAIN f}

\* add(child): pushes the child and records it as lastChild
add(h, this, child) ==
    [h EXCEPT ![this].content = Append(@, child), ![this].lastChild = child]

\* extend(n): pushes n's children; their parent fields are left as they are
extend(h, this, n) == [h EXCEPT ![this].content = @ \o h[n].content]

\* c.name.toLowerCase() === name.toLowerCase()
SameName(a, b) == toLowerCase(a) = toLowerCase(b)

\* children with the names compared as they are written: what C7's
\* "ignoring case" rules out
RECURSIVE childrenExactCase(_, _, _, _)
childrenExactCase(h, this, name, recursive) ==
    LET RECURSIVE Walk(_)
        Walk(cs) ==
            IF cs = <<>> THEN <<>>
            ELSE LET c == Head(cs)
                     own == IF name # Nul /\ name # <<>>
                            THEN IF h[c].name = name THEN <<c>> ELSE <<>>
                            ELSE <<c>>
                     sub == IF recursive
                            THEN childrenExactCase(h, c, name, recursive)
                            ELSE <<>>
                 IN  own \o sub \o Walk(Tail(cs))
    IN  Walk(h[this].content)

\* children(name, {recursive}): the identities of the matching nodes; a name
\* that is undefined or '' selects every node
RECURSIVE children(_, _, _, _)
children(h, this, name, recursive) ==
    LET RECURSIVE Walk(_)
        Walk(cs) ==
            IF cs = <<>> THEN <<>>
            ELSE LET c == Head(cs)
                     own == IF name # Nul /\ name # <<>>
                            THEN IF SameName(h[c].name, name) THEN <<c>> ELSE <<>>
                            ELSE <<c>>
                     sub == IF recursive THEN children(h, c, name, recursive)
                            ELSE <<>>
                 IN  own \o sub \o Walk(Tail(cs))
    IN  Walk(h[this].content)

\* first(name, {recursive}): children(...)[0], undefined when there is none
first(h, this, name, recursive) ==
    LET r == children(h, this, name, recursive)
    IN  IF r = <<>> THEN NoNode ELSE r[1]

\* the afterNode argument of insert: omitted, a name or a node
NoAfter == [kind |-> "none"]
AfterName(name) == [kind |-> "name", name |-> name]
AfterNode(n) == [kind |-> "node", node |-> n]

\* getIndex stopping at the first child that matches: what C6's "last
\* direct child that matches" rules out
getIndexFirst(h, content, after) ==
    LET hit(i) == IF after.kind = "node" THEN content[i] = after.node
                  ELSE SameName(h[content[i]].name, after.name)
        I == {i \in 1..Len(content) : hit(i)}
    IN  IF I = {} THEN -1 ELSE (CHOOSE i \in I : \A j \in I : i <= j)

\* getIndex of insert: i + 1 for the last child that is `after` (a node) or
\* is named `after` (a string); -1 when there is none
getIndex(h, content, after) ==
    LET hit(i) == IF after.kind = "node" THEN content[i] = after.node
                  ELSE SameName(h[content[i]].name, after.name)
        I == {i \in 1..Len(content) : hit(i)}
    IN  IF I = {} THEN -1 ELSE (CHOOSE i \in I : \A j \in I : j <= i)

\* insert(childNode, afterNode) with a raw line as childNode: the new node is
\* new Node({raw}), which has no parent, and it is the node returned.
\* Gives the heap after the call; the inserted node is the last one allocated.
insert(h, this, raw, after) ==
    LET n  == Len(h) + 1
        h1 == Append(h, NewNode(raw, NoNode, Nul, TRUE))
        c  == h1[this].content
        idx == IF after.kind = "none" THEN -1 ELSE getIndex(h1, c, after)
    IN  IF idx > -1
        THEN [h1 EXCEPT ![this].content =
                 SubSeq(c, 1, idx) \o <<n>> \o SubSeq(c, idx + 1, Len(c))]
        ELSE [h1 EXCEPT ![this].content = Append(c, n)]

RECURSIVE SetArgs(_, _, _)
SetArgs(h, ns, value) ==
    IF ns = <<>> THEN h
    ELSE SetArgs([h EXCEPT ![Head(ns)].args = value], Tail(ns), value)

\* set(name, value)
set(h, this, name, value) ==
    LET properties == children(h, this, name, FALSE)
    IN  IF Len(properties) = 0
        THEN insert(h, this, name \o <<" ">> \o value, NoAfter)
        ELSE SetArgs(h, properties, value)

\* delete(): filters this out of its parent's content, if it has a parent
delete(h, this) ==
    IF h[this].parent # NoNode
    THEN [h EXCEPT ![h[this].parent].content = SelectSeq(@, LAMBDA c : c # this)]
    ELSE h

sServerName == <<"S", "e", "r", "v", "e", "r", "N", "a", "m", "e">>
sServerAlias == <<"S", "e", "r", "v", "e", "r", "A", "l", "i", "a", "s">>
sVirtualHost == <<"<", "V", "i", "r", "t", "u", "a", "l", "H", "o", "s", "t", ">">>

\* getAllHostnames(vhost): undefined (Nul) stands in when there is no ServerName
getAllHostnames(h, vhost) ==
    LET sn == first(h, vhost, sServerName, FALSE)
        servername == IF sn = NoNode THEN Nul ELSE h[sn].args
        aliases == children(h, vhost, sServerAlias, FALSE)
    IN  <<servername>> \o
        Concat([i \in 1..Len(aliases) |-> split(h[aliases[i]].args, " ")])

\* findVHost looking for <VirtualHost> at any depth: what C8's "direct
\* child" rules out
findVHostAnyDepth(h, this, hostname, arg) ==
    LET vhosts == children(h, this, sVirtualHost, TRUE)
        ok(v) == /\ (arg # Nul /\ arg # <<>>) => includes(h[v].args, arg)
                 /\ hostname \in Range(getAllHostnames(h, v))
        I == {i \in 1..Len(vhosts) : ok(vhosts[i])}
    IN  IF I = {} THEN NoNode ELSE vhosts[Min(I)]

\* findVHost(hostname, arg): arg is Nul when omitted; null is NoNode
findVHost(h, this, hostname, arg) ==
    LET vhosts == children(h, this, sVirtualHost, FALSE)
        ok(v) == /\ (arg # Nul /\ arg # <<>>) => includes(h[v].args, arg)
                 /\ hostname \in Range(getAllHostnames(h, v))
        I == {i \in 1..Len(vhosts) : ok(vhosts[i])}
    IN  IF I = {} THEN NoNode ELSE vhosts[Min(I)]

-----------------------------------------------------------------------------
(* The serializer *)

prefix == <<" ", " ", " ", " ">>

\* Function.length of the method children, which `this.children.length`
\* reads in dump: the parameters before the first one with a default value
childrenLength == 1

NL == <<"\n">>

\* dump(depth).  A node whose section begins with '/' is never placed in a
\* tree by the parser; prefix.repeat of its negative count at depth 0 is
\* taken as the empty string here.
RECURSIVE dump(_, _, _)
dump(h, this, depth) ==
    LET n == h[this]
        paddedSuffix == IF n.suffix # Nul /\ n.suffix # <<>>
                        THEN <<" ">> \o n.suffix ELSE <<>>
        kids(d) == Concat([i \in 1..Len(n.content) |-> dump(h, n.content[i], d)])
    IN  IF n.cmd # Nul /\ n.cmd # <<>> THEN
            repeat(prefix, depth) \o n.cmd \o <<" ">> \o n.args \o paddedSuffix \o NL
        ELSE IF n.section # Nul /\ n.section # <<>> THEN
            LET lineDepth == IF n.section[1] = "/" THEN depth - 1 ELSE depth
                open == IF n.args # <<>>
                        THEN repeat(prefix, lineDepth) \o <<"<">> \o n.section
                             \o <<" ">> \o n.args \o <<">">> \o paddedSuffix \o NL
                        ELSE repeat(prefix, lineDepth) \o <<"<">> \o n.section
                             \o <<">">> \o paddedSuffix \o NL
            IN  IF childrenLength > 0
                THEN open \o kids(depth + 1) \o repeat(prefix, lineDepth)
                     \o <<"<", "/">> \o n.section \o <<">">> \o NL
                ELSE open
        ELSE
            LET own == IF n.suffix # Nul /\ n.suffix # <<>>
                       THEN repeat(prefix, depth) \o n.suffix \o NL
                       ELSE IF HasRaw(n.raw) THEN NL ELSE <<>>
            IN  IF childrenLength > 0 THEN own \o kids(depth) ELSE own

-----------------------------------------------------------------------------
(* The file system: one directory, "." , holding the files of fsys *)

\* every file name the model uses, in the order glob.sync returns them
FileOrder == << <<"f">>, <<"g">> >>

Dot == <<".">>

\* path.join(args), and path.join(dirname(filename), args) inside the one
\* directory: the empty path is "."
PathJoin(args) == IF args = <<>> THEN Dot ELSE args

existsSync(fs, p) == p = Dot \/ p \in DOMAIN fs

isDirectory(p) == p = Dot

\* minimatch of one path segment: '*' stands for any run of characters
RECURSIVE GlobMatch(_, _)
GlobMatch(pat, name) ==
    IF pat = <<>> THEN name = <<>>
    ELSE IF Head(pat) = "*"
         THEN \E k \in 0..Len(name) :
                  GlobMatch(Tail(pat), SubSeq(name, k + 1, Len(name)))
         ELSE /\ name # <<>>
              /\ Head(name) = Head(pat)
              /\ GlobMatch(Tail(pat), Tail(name))

\* glob.sync(pattern): the matching files, sorted
globSync(fs, pat) ==
    SelectSeq(FileOrder, LAMBDA n : n \in DOMAIN fs /\ GlobMatch(pat, n))

\* the pattern an include line expands: a directory stands for its entries
FullPath(args) ==
    LET fullpath == PathJoin(args)
    IN  IF isDirectory(fullpath) THEN <<"*">> ELSE fullpath

-----------------------------------------------------------------------------
(* The parser *)

sInclude == <<"i", "n", "c", "l", "u", "d", "e">>
sIncludeOptional == sInclude \o <<"o", "p", "t", "i", "o", "n", "a", "l">>

\* ['include', 'includeoptional'].includes(node.name.toLowerCase())
IsIncludeName(name) == toLowerCase(name) \in {sInclude, sIncludeOptional}

\* One non-blank line l, already trimmed, read with current parent `parent`:
\* the node is created, added to the parent unless it closes a section, and
\* the current parent moves.  parent?.add and parent?.parent do nothing on
\* an undefined parent.
LineStep(h, parent, l) ==
    LET node == Len(h) + 1
        h1 == Append(h, NewNode(l, parent, Nul, TRUE))
        added == IF parent # NoNode THEN add(h1, parent, node) ELSE h1
    IN  IF isOpen(l) THEN [heap |-> added, parent |-> node, node |-> node]
        ELSE IF isClose(l) THEN
            [heap |-> h1,
             parent |-> IF parent # NoNode THEN h1[parent].parent ELSE NoNode,
             node |-> node]
        ELSE [heap |-> added, parent |-> parent, node |-> node]

\* a call of readText or readFile: the node it runs on, the current parent,
\* the lines not read yet, the file read (Nul for readText) and the matched
\* paths of the include under way that are not imported yet
Frame(this, lines, file) ==
    [this |-> this, parent |-> this, lines |-> lines, file |-> file,
     matches |-> <<>>]

Top == stack[Len(stack)]

SetTop(f) == [stack EXCEPT ![Len(stack)] = f]

Reading ==
    /\ status = "parsing"
    /\ stack # <<>>
    /\ Top.matches = <<>>
    /\ Top.lines # <<>>

\* the line under the cursor, trimmed
CurLine == trim(Head(Top.lines))

\* lines 302-305 and 358-361: the line is an include this tree resolves
Resolves(l) ==
    /\ heap[Top.this].includes
    /\ \E n \in {NewNode(l, NoNode, Nul, TRUE)} : IsIncludeName(n.name)

\* `if (!l) continue`
ReadBlank ==
    /\ Reading
    /\ CurLine = <<>>
    /\ stack' = SetTop([Top EXCEPT !.lines = Tail(@)])
    /\ UNCHANGED <<heap, status, fsys, mode, input, warnings, ops, last, prev>>

\* a line that is not an include to resolve
ReadNode ==
    /\ Reading
    /\ \E l \in {CurLine} :
           /\ l # <<>>
           /\ ~Resolves(l)
           /\ \E r \in {LineStep(heap, Top.parent, l)} :
                  /\ heap' = r.heap
                  /\ stack' = SetTop([Top EXCEPT !.lines = Tail(@),
                                                 !.parent = r.parent])
    /\ UNCHANGED <<status, fsys, mode, input, warnings, ops, last, prev>>

\* lstatSync(fullpath) of readFile throws when nothing is at fullpath;
\* readText asks existsSync first
LstatThrows(f, args) == f.file # Nul /\ ~existsSync(fsys, PathJoin(args))

\* an include line: the node is placed like any other, then the pattern is
\* expanded and the matched paths wait to be imported
ReadInclude ==
    /\ Reading
    /\ \E l \in {CurLine} :
           /\ l # <<>>
           /\ Resolves(l)
           /\ \E r \in {LineStep(heap, Top.parent, l)} :
                  LET args == r.heap[r.node].args
                  IN  /\ ~LstatThrows(Top, args)
                      /\ heap' = r.heap
                      /\ stack' = SetTop([Top EXCEPT
                              !.lines = Tail(@), !.parent = r.parent,
                              !.matches = globSync(fsys, FullPath(args))])
    /\ UNCHANGED <<status, fsys, mode, input, warnings, ops, last, prev>>

\* an include line of a file whose target does not exist: lstatSync throws
\* out of readFile.  The readFile of an import rejects into the catch of the
\* importing call, which warns and goes on; the outermost one rejects fromFile.
ReadIncludeThrows ==
    /\ Reading
    /\ \E l \in {CurLine} :
           /\ l # <<>>
           /\ Resolves(l)
           /\ \E r \in {LineStep(heap, Top.parent, l)} :
                  /\ LstatThrows(Top, r.heap[r.node].args)
                  /\ heap' = r.heap
    /\ IF Len(stack) = 1
       THEN /\ status' = "raised"
            /\ stack' = <<>>
            /\ UNCHANGED warnings
       ELSE /\ status' = status
            /\ stack' = SubSeq(stack, 1, Len(stack) - 1)
            /\ warnings' = Append(warnings, Top.file)
    /\ UNCHANGED <<fsys, mode, input, ops, last, prev>>

\* bound on the nesting of imports
MaxDepth == 3

\* `const subNode = new Node({ path }); await subNode.readFile(path)`
EnterInclude ==
    /\ status = "parsing"
    /\ stack # <<>>
    /\ Top.matches # <<>>
    /\ Len(stack) < MaxDepth
    /\ LET path == Head(Top.matches)
           subNode == Len(heap) + 1
       IN  /\ heap' = Append(heap, NewNode(Nul, NoNode, Nul, TRUE))
           /\ stack' = Append(SetTop([Top EXCEPT !.matches = Tail(@)]),
                              Frame(subNode, fsys[path], path))
    /\ UNCHANGED <<status, fsys, mode, input, warnings, ops, last, prev>>

\* the readFile of an import returns: `this.extend(subNode)`
FinishInclude ==
    /\ status = "parsing"
    /\ Len(stack) > 1
    /\ Top.matches = <<>>
    /\ Top.lines = <<>>
    /\ heap' = extend(heap, stack[Len(stack) - 1].this, Top.this)
    /\ stack' = SubSeq(stack, 1, Len(stack) - 1)
    /\ UNCHANGED <<status, fsys, mode, input, warnings, ops, last, prev>>

\* the outermost readText or readFile returns: fromText / fromFile resolve
FinishParse ==
    /\ status = "parsing"
    /\ Len(stack) = 1
    /\ Top.matches = <<>>
    /\ Top.lines = <<>>
    /\ status' = "done"
    /\ stack' = <<>>
    /\ UNCHANGED <<heap, fsys, mode, input, warnings, ops, last, prev>>

-----------------------------------------------------------------------------
(* API calls on the tree fromText / fromFile returned *)

Root == 1

\* every node below n, in document order
Descendants(h, n) == children(h, n, Nul, TRUE)

\* the nodes the calls are made on: the root and the sections below it
Containers(h) ==
    {Root} \cup {n \in Range(Descendants(h, Root)) : h[n].section # Nul}

NoCall ==
    [op |-> "none", this |-> NoNode, raw |-> Nul, after |-> NoAfter,
     name |-> Nul, value |-> Nul, recursive |-> FALSE, ret |-> NoNode,
     list |-> <<>>]

\* bound on the number of calls made on a tree
MaxOps == 2

\* a call that changes the tree
Mutating ==
    /\ status = "done"
    /\ ops < MaxOps
    /\ ops' = ops + 1
    /\ prev' = heap
    /\ UNCHANGED <<stack, status, fsys, mode, input, warnings>>

\* a call that only reads the tree
Querying ==
    /\ status = "done"
    /\ ops < MaxOps
    /\ ops' = ops + 1
    /\ prev' = heap
    /\ UNCHANGED <<heap, stack, status, fsys, mode, input, warnings>>

\* root.add(new Node({ raw }))
DoAdd(this, raw) ==
    /\ Mutating
    /\ LET child == Len(heap) + 1
       IN  /\ heap' = add(Append(heap, NewNode(raw, NoNode, Nul, TRUE)), this, child)
           /\ last' = [NoCall EXCEPT !.op = "add", !.this = this, !.raw = raw,
                                     !.ret = child]

DoInsert(this, raw, after) ==
    /\ Mutating
    /\ heap' = insert(heap, this, raw, after)
    /\ last' = [NoCall EXCEPT !.op = "insert", !.this = this, !.raw = raw,
                              !.after = after, !.ret = Len(heap) + 1]

DoSet(this, name, value) ==
    /\ Mutating
    /\ heap' = set(heap, this, name, value)
    /\ last' = [NoCall EXCEPT !.op = "set", !.this = this, !.name = name,
                              !.value = value]

DoDelete(n) ==
    /\ Mutating
    /\ heap' = delete(heap, n)
    /\ last' = [NoCall EXCEPT !.op = "delete", !.this = n, !.name = heap[n].name]

DoChildren(this, name, recursive) ==
    /\ Querying
    /\ last' = [NoCall EXCEPT !.op = "children", !.this = this, !.name = name,
                              !.recursive = recursive,
                              !.list = children(heap, this, name, recursive)]

DoFirst(this, name, recursive) ==
    /\ Querying
    /\ last' = [NoCall EXCEPT !.op = "first", !.this = this, !.name = name,
                              !.recursive = recursive,
                              !.ret = first(heap, this, name, recursive)]

DoFindVHost(this, hostname, arg) ==
    /\ Querying
    /\ last' = [NoCall EXCEPT !.op = "findVHost", !.this = this,
                              !.name = hostname, !.value = arg,
                              !.ret = findVHost(heap, this, hostname, arg)]

-----------------------------------------------------------------------------
(* Inputs *)

\* lines.join('\n')
RECURSIVE JoinLines(_)
JoinLines(ls) ==
    IF ls = <<>> THEN <<>>
    ELSE IF Len(ls) = 1 THEN ls[1]
    ELSE ls[1] \o NL \o JoinLines(Tail(ls))

lDirective == <<"F", " ", "a">>
lTab == <<"F", "\t", "a">>
lOpen == <<"<", "A", " ", "b", ">">>
lClose == <<"<", "/", "A", ">">>
lInner == <<"F", " ", "<", "/", "b">>
lIncF == <<"I", "n", "c", "l", "u", "d", "e", " ", "f">>
lIncStar == <<"i", "n", "c", "l", "u", "d", "e", " ", "*">>
lIncM == <<"I", "n", "c", "l", "u", "d", "e", "O", "p", "t", "i", "o", "n", "a", "l", " ", "m">>

\* the lines the parsed texts are made of
ParseLines ==
    {lDirective, lTab, lOpen, lClose, lInner, lIncF, lIncStar, lIncM}

\* bound on the number of lines of a parsed text
MaxLines == 3

Texts ==
    {JoinLines(ls) : ls \in UNION {[1..n -> ParseLines] : n \in 0..MaxLines}}

fPlain == << <<"G", " ", "x">> >>
fNested == << <<"G", " ", "x">>, <<"I", "n", "c", "l", "u", "d", "e", " ", "g">> >>
fMissing == << <<"G", " ", "x">>, <<"I", "n", "c", "l", "u", "d", "e", "O", "p", "t", "i", "o", "n", "a", "l", " ", "m">>, <<"G", " ", "y">> >>
fCycle == << <<"I", "n", "c", "l", "u", "d", "e", " ", "f">> >>
gPlain == << <<"H", " ", "x">> >>
gMissing == << <<"i", "n", "c", "l", "u", "d", "e", " ", "*">>, <<"H", " ", "x">> >>

\* the contents of the files f and g
FileSystems ==
    {[n \in Range(FileOrder) |-> IF n = <<"f">> THEN cf ELSE cg] :
        cf \in {fPlain, fNested, fMissing, fCycle}, cg \in {gPlain, gMissing}}

\* fromText(text, {includes}) or fromFile(fileName, {includes}) is called:
\* the root is constructed and readText / readFile starts on it
Call(texts, files) ==
    /\ fsys \in files
    /\ \E incl \in BOOLEAN :
           heap = <<NewNode(Nul, NoNode, Nul, incl)>>
    /\ \/ /\ mode = "text"
          /\ input \in texts
          /\ stack = <<Frame(Root, split(input, "\n"), Nul)>>
       \/ /\ mode = "file"
          /\ input \in DOMAIN fsys
          /\ stack = <<Frame(Root, fsys[input], input)>>
    /\ status = "parsing"
    /\ warnings = <<>>
    /\ ops = 0
    /\ last = NoCall
    /\ prev = <<>>

\* a text parsed with includes off reads no file: one file system stands for
\* all of them there
Init ==
    /\ Call(Texts, FileSystems)
    /\ (mode = "text" /\ ~heap[Root].includes) =>
           (fsys[<<"f">>] = fPlain /\ fsys[<<"g">>] = gPlain)

Next ==
    \/ ReadBlank
    \/ ReadNode
    \/ ReadInclude
    \/ ReadIncludeThrows
    \/ EnterInclude
    \/ FinishInclude
    \/ FinishParse

Spec == Init /\ [][Next]_vars

-----------------------------------------------------------------------------
(* The parse of a text as one function, for a tree that resolves no include: *)
(* the loop of readText with the include branch never taken                  *)

RECURSIVE ReadLines(_, _, _)
ReadLines(h, parent, lines) ==
    IF lines = <<>> THEN h
    ELSE LET l == trim(Head(lines))
         IN  IF l = <<>> THEN ReadLines(h, parent, Tail(lines))
             ELSE LET r == LineStep(h, parent, l)
                  IN  ReadLines(r.heap, r.parent, Tail(lines))

\* the current parent after the lines are read
RECURSIVE ParentAfter(_, _, _)
ParentAfter(h, parent, lines) ==
    IF lines = <<>> THEN parent
    ELSE LET l == trim(Head(lines))
         IN  IF l = <<>> THEN ParentAfter(h, parent, Tail(lines))
             ELSE LET r == LineStep(h, parent, l)
                  IN  ParentAfter(r.heap, r.parent, Tail(lines))

\* fromText(text, {includes: false})
fromTextNoIncludes(text) ==
    ReadLines(<<NewNode(Nul, NoNode, Nul, FALSE)>>, Root, split(text, "\n"))

-----------------------------------------------------------------------------
(* Claims about the parser *)

\* the tree below n as a value: shape, and name, cmd, section and args of
\* every node
RECURSIVE TreeOf(_, _)
TreeOf(h, n) ==
    [name |-> h[n].name, cmd |-> h[n].cmd, section |-> h[n].section,
     args |-> h[n].args,
     kids |-> [i \in 1..Len(h[n].content) |-> TreeOf(h, h[n].content[i])]]

\* a parse by fromText that has returned
ParsedText == status = "done" /\ mode = "text"

\* C1: the tree parsed, with includes disabled, from the dump of a tree that
\* was parsed with includes disabled has the same shape as that tree and the
\* same name, cmd/section and args at every node.
C1_RoundTrip ==
    (ParsedText /\ ~heap[Root].includes /\ ops = 0) =>
        TreeOf(fromTextNoIncludes(dump(heap, Root, 0)), Root) = TreeOf(heap, Root)

\* a line whose first non-blank characters are "</"
IsCloseLine(l) ==
    LET t == trim(l) IN Len(t) >= 2 /\ t[1] = "<" /\ t[2] = "/"

DropLine(lines, i) == SubSeq(lines, 1, i - 1) \o SubSeq(lines, i + 1, Len(lines))

\* the close lines of the text that the parser reads while positioned at root
UnmatchedCloses(lines) ==
    {i \in 1..Len(lines) :
        /\ IsCloseLine(lines[i])
        /\ ParentAfter(<<NewNode(Nul, NoNode, Nul, FALSE)>>, Root,
                       SubSeq(lines, 1, i - 1)) = Root}

\* C2: a close line read while the current parent is the root is ignored: the
\* tree parsed is the tree parsed from the same text without that line.
C2_UnmatchedCloseIgnored ==
    (ParsedText /\ ~heap[Root].includes /\ ops = 0) =>
        LET lines == split(input, "\n")
        IN  \A i \in UnmatchedCloses(lines) :
                TreeOf(heap, Root) =
                    TreeOf(fromTextNoIncludes(JoinLines(DropLine(lines, i))), Root)

\* C3: no include line makes fromText or fromFile raise.
C3_IncludeNeverAborts == status # "raised"

RECURSIVE IsSubseq(_, _)
IsSubseq(a, b) ==
    IF a = <<>> THEN TRUE
    ELSE IF b = <<>> THEN FALSE
    ELSE IF Head(a) = Head(b) THEN IsSubseq(Tail(a), Tail(b))
    ELSE IsSubseq(a, Tail(b))

\* the raw lines of the top-level nodes of a sequence of lines
TopRaws(lines) ==
    LET h == ReadLines(<<NewNode(Nul, NoNode, Nul, FALSE)>>, Root, lines)
    IN  [i \in 1..Len(h[Root].content) |-> h[h[Root].content[i]].raw]

\* what the top level of the tree of a text must hold, in order, when
\* includes are resolved: the node of every top-level line and, after the
\* node of an include line, the top-level nodes of every file it matches
RECURSIVE SplicedRaws(_, _)
SplicedRaws(lines, i) ==
    IF i > Len(lines) THEN <<>>
    ELSE LET l == trim(lines[i])
             before == SubSeq(lines, 1, i - 1)
             atTop == ParentAfter(<<NewNode(Nul, NoNode, Nul, FALSE)>>, Root,
                                  before) = Root
             own == IF l # <<>> /\ atTop /\ (isOpen(l) \/ ~isClose(l))
                    THEN <<l>> ELSE <<>>
             node == NewNode(l, NoNode, Nul, TRUE)
             matched == IF l # <<>> /\ IsIncludeName(node.name)
                        THEN globSync(fsys, FullPath(node.args)) ELSE <<>>
             files == Concat([k \in 1..Len(matched) |-> TopRaws(fsys[matched[k]])])
         IN  own \o files \o SplicedRaws(lines, i + 1)

\* C9: with includes false the tree is the one of the literal lines and no
\* file is read; with includes true the top-level nodes of every matched
\* file are in the top level of the tree, in matched-file order, after the
\* nodes of earlier lines and before those of later top-level lines.
C9_IncludeSplice ==
    (ParsedText /\ ops = 0) =>
        IF ~heap[Root].includes
        THEN heap = fromTextNoIncludes(input) /\ warnings = <<>>
        ELSE IsSubseq(SplicedRaws(split(input, "\n"), 1),
                      [i \in 1..Len(heap[Root].content) |->
                          heap[heap[Root].content[i]].raw])

\* a step of readText or readFile that reads a non-blank line: it is the
\* only step of a reading call that constructs a node
LineRead == Reading /\ CurLine # <<>> /\ Len(heap') = Len(heap) + 1

\* the current parent of the reading call after the step, when the call has
\* not thrown
ParentIsNext(p) == Len(stack') >= Len(stack) => stack'[Len(stack)].parent = p

\* C11: while there is a current parent, a line whose first non-blank
\* characters are "</" is not added and moves the current parent to its
\* parent; every other non-blank line that does not begin with "<", also one
\* that holds "</" further on, is appended as one node to the current parent
\* and leaves the current parent where it is.
C11_OnlyCloseLinesMoveUp ==
    [][(LineRead /\ Top.parent # NoNode) =>
           LET l == CurLine
               p == Top.parent
               node == Len(heap) + 1
           IN  IF IsCloseLine(l)
               THEN /\ heap'[p].content = heap[p].content
                    /\ ParentIsNext(heap[p].parent)
               ELSE IF l[1] # "<"
               THEN /\ heap'[p].content = Append(heap[p].content, node)
                    /\ heap'[node].raw = l
                    /\ ParentIsNext(p)
               ELSE TRUE]_vars

\* fromText or fromFile has resolved or rejected
Finished == status \in {"done", "raised"}

\* a file that is being read by two nested calls of readFile.  readFile keeps
\* no record of the files under way and what a call does depends only on the
\* file it reads, so the inner call descends exactly as the outer one did.
\* MaxDepth exceeds the number of files: the nesting reaches it only in such
\* a state.
Reentered ==
    \E i, j \in 1..Len(stack) :
        i < j /\ stack[i].file # Nul /\ stack[i].file = stack[j].file

\* the parse of a text of one line, or of a file, with includes enabled.  It
\* is one chain of awaited calls with
\* nothing else to schedule: a step that can be taken is taken.
LiveTexts == {<<>>} \cup ParseLines

InitLive == Call(LiveTexts, FileSystems) /\ heap[Root].includes

SpecLive == InitLive /\ [][Next]_vars /\ WF_vars(Next)

-----------------------------------------------------------------------------
(* The API: trees built by parsing, then queried and changed *)

sSSLEngine == <<"S", "S", "L", "E", "n", "g", "i", "n", "e">>
sDotIo == <<".", "i", "o">>
Host(c) == <<c>> \o sDotIo

\* a virtual host with two alias lines (one separated by a tab) and a nested
\* section, a blank line, and an include of every file of the directory
tHosts ==
    JoinLines(<< <<"<", "V", "i", "r", "t", "u", "a", "l", "H", "o", "s", "t", " ", "*", ":", "8", "0", ">">>,
                 sServerName \o <<" ">> \o Host("a"),
                 sServerAlias \o <<" ">> \o Host("b") \o <<" ">> \o Host("c"),
                 sServerAlias \o <<" ">> \o Host("d") \o <<"\t">> \o Host("e"),
                 <<"<", "I", "f", "M", "o", "d", "u", "l", "e", " ", "m", ">">>,
                 sSSLEngine \o <<" ", "o", "n">>,
                 <<"<", "/", "I", "f", "M", "o", "d", "u", "l", "e", ">">>,
                 <<"<", "/", "V", "i", "r", "t", "u", "a", "l", "H", "o", "s", "t", ">">>,
                 <<>>,
                 <<"I", "n", "c", "l", "u", "d", "e", " ", "*">> >>)

\* a virtual host inside another section
tNested ==
    JoinLines(<< <<"<", "I", "f", "M", "o", "d", "u", "l", "e", " ", "m", ">">>,
                 <<"<", "V", "i", "r", "t", "u", "a", "l", "H", "o", "s", "t", " ", "*", ":", "8", "0", ">">>,
                 sServerName \o <<" ">> \o Host("n"),
                 <<"<", "/", "V", "i", "r", "t", "u", "a", "l", "H", "o", "s", "t", ">">>,
                 <<"<", "/", "I", "f", "M", "o", "d", "u", "l", "e", ">">> >>)

ApiTexts == {tHosts, tNested, <<>>}

\* f holds a directive and a second virtual host for a.io; g fails to import
ApiFiles ==
    {[n \in Range(FileOrder) |->
        IF n = <<"f">>
        THEN << sSSLEngine \o <<" ", "o", "n">>, <<"<", "V", "i", "r", "t", "u", "a", "l", "H", "o", "s", "t", " ", "*", ":", "4", "4", "3", ">">>,
                sServerName \o <<" ">> \o Host("a"), <<"<", "/", "V", "i", "r", "t", "u", "a", "l", "H", "o", "s", "t", ">">> >>
        ELSE gMissing]}

\* arguments of the calls
sLowerAlias == toLowerCase(sServerAlias)
sLowerSSL == toLowerCase(sSSLEngine)
rAlias == sServerAlias \o <<" ">> \o Host("x")
rDocRoot == <<"D", "o", "c", "u", "m", "e", "n", "t", "R", "o", "o", "t", " ", "/", "w">>
vOff == <<"O", "f", "f">>
vComment == <<"a", " ", "#", "b">>
a443 == <<"4", "4", "3">>

\* the nodes the mutating calls are made on: the root and its first section
Receivers(h) ==
    {Root} \cup {n \in Range(h[Root].content) :
                    /\ h[n].section # Nul
                    /\ \A m \in Range(h[Root].content) :
                           h[m].section # Nul => n <= m}

\* the afterNode arguments tried on a receiver
Afters(h, this) ==
    {NoAfter, AfterName(sLowerAlias), AfterName(sLowerSSL), AfterNode(Root)}
        \cup {AfterNode(c) : c \in Range(h[this].content)}

\* the nodes root.children(name, {recursive: true}) locates
Located(h) ==
    UNION {Range(children(h, Root, name, TRUE)) : name \in {sLowerAlias, sLowerSSL}}

QueryNames == {Nul, sLowerSSL, sServerAlias}

Hostnames == {Host("a"), Host("c"), Host("e"), Host("n")}

InitApi == Call(ApiTexts, ApiFiles) /\ mode = "text" /\ heap[Root].includes

NextApi ==
    \/ ReadBlank
    \/ ReadNode
    \/ ReadInclude
    \/ ReadIncludeThrows
    \/ EnterInclude
    \/ FinishInclude
    \/ FinishParse
    \/ \E this \in Receivers(heap) : DoAdd(this, rDocRoot)
    \/ \E this \in Receivers(heap) :
           \E after \in Afters(heap, this) : DoInsert(this, rAlias, after)
    \/ \E this \in Receivers(heap), name \in {sSSLEngine, sLowerAlias},
          value \in {vOff, vComment} : DoSet(this, name, value)
    \/ \E n \in Located(heap) : DoDelete(n)
    \/ \E name \in QueryNames, recursive \in BOOLEAN :
           DoChildren(Root, name, recursive)
    \/ \E name \in QueryNames, recursive \in BOOLEAN :
           DoFirst(Root, name, recursive)
    \/ \E hostname \in Hostnames, arg \in {Nul, a443} :
           DoFindVHost(Root, hostname, arg)

SpecApi == InitApi /\ [][NextApi]_vars

-----------------------------------------------------------------------------
(* Claims about the API *)

\* the root and every node below it
TreeNodes(h) == {Root} \cup Range(Descendants(h, Root))

\* C4: after n.delete() on a node n located under the root, n is no longer
\* among the root's descendants, and when no other node had its name,
\* root.first(name, {recursive: true}) is undefined.
C4_DeleteRemoves ==
    last.op = "delete" =>
        /\ last.this \notin Range(Descendants(heap, Root))
        /\ (Range(children(prev, Root, last.name, TRUE)) = {last.this}
               => first(heap, Root, last.name, TRUE) = NoNode)

\* how many times node n stands in the content lists of the nodes of the tree
Occurrences(h, n) ==
    Cardinality({pi \in TreeNodes(h) \X (1..Len(h)) :
                    /\ pi[2] <= Len(h[pi[1]].content)
                    /\ h[pi[1]].content[pi[2]] = n})

\* C10: every node that stands in the content of a node p of the tree has p
\* as its parent and stands exactly once in exactly one content list.
C10_ParentChildConsistent ==
    \A p \in TreeNodes(heap) :
        \A i \in 1..Len(heap[p].content) :
            LET n == heap[p].content[i]
            IN  heap[n].parent = p /\ Occurrences(heap, n) = 1

\* the direct children of `this` whose name is `name`, ignoring case
Named(h, this, name) ==
    SelectSeq(h[this].content, LAMBDA c : toLowerCase(h[c].name) = toLowerCase(name))

\* C5: after set(name, value) some direct child is named name and every such
\* child has args = value; one directive was added if none was named so
\* before and no node otherwise; and set(name, value) once more changes
\* nothing.
C5_SetIdempotent ==
    last.op = "set" =>
        LET this == last.this
            before == Named(prev, this, last.name)
            now == Named(heap, this, last.name)
        IN  /\ now # <<>>
            /\ \A i \in 1..Len(now) : heap[now[i]].args = last.value
            /\ IF before = <<>>
               THEN /\ Len(heap) = Len(prev) + 1
                    /\ Len(heap[this].content) = Len(prev[this].content) + 1
                    /\ heap[Len(heap)].cmd # Nul
               ELSE /\ Len(heap) = Len(prev)
                    /\ heap[this].content = prev[this].content
            /\ set(heap, this, last.name, last.value) = heap

\* the positions of the children of `this` that the after argument matches
AfterHits(h, this, after) ==
    {i \in 1..Len(h[this].content) :
        IF after.kind = "node" THEN h[this].content[i] = after.node
        ELSE IF after.kind = "name"
             THEN toLowerCase(h[h[this].content[i]].name) = toLowerCase(after.name)
             ELSE FALSE}

Max(S) == CHOOSE x \in S : \A y \in S : y <= x

\* C6: insert(child, after) puts the new node right after the last direct
\* child that after matches, or at the end when after is omitted or matches
\* none; it returns the new node, and the children that were there keep
\* their order.
C6_InsertAfter ==
    last.op = "insert" =>
        LET this == last.this
            pre == prev[this].content
            post == heap[this].content
            n == last.ret
            hits == AfterHits(prev, this, last.after)
        IN  /\ n = Len(prev) + 1
            /\ Len(heap) = n
            /\ heap[n].raw = last.raw
            /\ IF hits # {}
               THEN post = SubSeq(pre, 1, Max(hits)) \o <<n>>
                              \o SubSeq(pre, Max(hits) + 1, Len(pre))
               ELSE post = pre \o <<n>>
            /\ SelectSeq(post, LAMBDA c : c # n) = pre

\* an insert after a name that two children bear put the node in the middle
C6_Witness ==
    /\ last.op = "insert"
    /\ last.after.kind = "name"
    /\ Cardinality(AfterHits(prev, last.this, last.after)) >= 2
    /\ heap[last.this].content[Len(heap[last.this].content)] # last.ret

\* all the nodes below n, depth first, each node before its children
RECURSIVE PreOrder(_, _)
PreOrder(h, n) ==
    Concat([i \in 1..Len(h[n].content) |->
               <<h[n].content[i]>> \o PreOrder(h, h[n].content[i])])

\* the tree is finished and the last call, if any, changed it: the states in
\* which a query has answers it did not have in the state before
Changed == status = "done" /\ last.op \in {"none", "add", "insert", "set", "delete"}

\* what children(name, {recursive}) is to return
Selected(h, this, name, recursive) ==
    LET pool == IF recursive THEN PreOrder(h, this) ELSE h[this].content
    IN  IF name = Nul THEN pool
        ELSE SelectSeq(pool, LAMBDA c : toLowerCase(h[c].name) = toLowerCase(name))

\* C7: children(name, {recursive}) returns exactly the nodes named name,
\* ignoring case (all nodes without a name): the direct children in content
\* order, or with recursive all descendants depth first, each before its own
\* descendants; first is the first of them, or undefined when there is none.
C7_ChildrenQuery ==
    /\ last.op = "children" =>
           last.list = Selected(prev, last.this, last.name, last.recursive)
    /\ last.op = "first" =>
           LET want == Selected(prev, last.this, last.name, last.recursive)
           IN  last.ret = IF want = <<>> THEN NoNode ELSE want[1]
    /\ Changed =>
           \A this \in Containers(heap), name \in QueryNames, recursive \in BOOLEAN :
               LET want == Selected(heap, this, name, recursive)
               IN  /\ children(heap, this, name, recursive) = want
                   /\ first(heap, this, name, recursive)
                          = IF want = <<>> THEN NoNode ELSE want[1]

\* a recursive query by a name in another case found a directive nested in a
\* section, which the same query without recursive does not return
C7_Witness ==
    /\ last.op = "children"
    /\ last.recursive
    /\ last.name = sLowerSSL
    /\ \E n \in Range(last.list) :
           /\ heap[n].name = sSSLEngine
           /\ n \notin Range(heap[last.this].content)
           /\ n \notin Range(children(heap, last.this, last.name, FALSE))

\* the whitespace-separated tokens of s: its maximal runs of characters
\* other than space and tab
WsTokens(s) ==
    {SubSeq(s, ij[1], ij[2]) :
        ij \in {x \in (1..Len(s)) \X (1..Len(s)) :
                   /\ x[1] <= x[2]
                   /\ \A k \in x[1]..x[2] : s[k] \notin {" ", "\t"}
                   /\ (x[1] = 1 \/ s[x[1] - 1] \in {" ", "\t"})
                   /\ (x[2] = Len(s) \/ s[x[2] + 1] \in {" ", "\t"})}}

\* the pieces of s between one space character and the next (the empty
\* string between two adjacent spaces; a tab separates nothing)
SpacePieces(s) ==
    LET cuts == {0, Len(s) + 1} \cup {i \in 1..Len(s) : s[i] = " "}
    IN  {SubSeq(s, ab[1] + 1, ab[2] - 1) :
            ab \in {x \in cuts \X cuts :
                       /\ x[1] < x[2]
                       /\ \A c \in cuts : ~(x[1] < c /\ c < x[2])}}

\* the <VirtualHost> findVHost(hostname, arg) is to return, with Tokens
\* telling the hostnames an alias line stands for; NoNode for null
WantedVHost(h, this, hostname, arg, Tokens(_)) ==
    LET vhosts == Named(h, this, sVirtualHost)
        names(v) == Named(h, v, sServerName)
        aliases(v) == Named(h, v, sServerAlias)
        candidates(v) ==
            (IF names(v) = <<>> THEN {} ELSE {h[names(v)[1]].args})
            \cup UNION {Tokens(h[aliases(v)[i]].args) : i \in 1..Len(aliases(v))}
        fits(v) == /\ arg # Nul => includes(h[v].args, arg)
                   /\ hostname \in candidates(v)
        I == {i \in 1..Len(vhosts) : fits(vhosts[i])}
    IN  IF I = {} THEN NoNode ELSE vhosts[Min(I)]

\* C8, as stated: findVHost(hostname, arg) returns the first direct
\* <VirtualHost> child whose args contain arg (when given) and whose
\* ServerName args or whitespace-separated ServerAlias tokens contain
\* hostname; null when there is none.
C8_FindVHostWhitespace ==
    last.op = "findVHost" =>
        last.ret = WantedVHost(prev, last.this, last.name, last.value, WsTokens)

\* C8, amended: the candidates of an alias line are the pieces of its args
\* between single space characters, so a tab does not separate two aliases.
C8_FindVHostSpaceSplit ==
    /\ last.op = "findVHost" =>
           last.ret = WantedVHost(prev, last.this, last.name, last.value, SpacePieces)
    /\ Changed =>
           \A this \in Containers(heap), hostname \in Hostnames, arg \in {Nul, a443} :
               findVHost(heap, this, hostname, arg)
                   = WantedVHost(heap, this, hostname, arg, SpacePieces)

\* findVHost returned the second of two virtual hosts of the hostname, the
\* one whose args contain the arg given
C8_Witness ==
    /\ last.op = "findVHost"
    /\ last.value = a443
    /\ last.ret # NoNode
    /\ \E v \in Range(Named(heap, last.this, sVirtualHost)) :
           v # last.ret /\ last.name \in Range(getAllHostnames(heap, v))


-----------------------------------------------------------------------------
(* Claims about the serializer *)

\* the sections of the tree: the nodes an open tag line made
Sections(h) ==
    {n \in TreeNodes(h) \ {Root} :
        h[n].cmd = Nul /\ h[n].section # Nul /\ h[n].section # <<>>}

\* the open tag line of section n at a depth: args only when not empty
OpenTag(h, n, depth) ==
    repeat(prefix, depth) \o <<"<">> \o h[n].section
        \o (IF h[n].args # <<>> THEN <<" ">> \o h[n].args ELSE <<>>) \o <<">">>
        \o (IF h[n].suffix # Nul /\ h[n].suffix # <<>>
            THEN <<" ">> \o h[n].suffix ELSE <<>>)
        \o NL

CloseTag(h, n, depth) ==
    repeat(prefix, depth) \o <<"<", "/">> \o h[n].section \o <<">">> \o NL

\* the dumps of the children of n, in content order, each at the depth given
ChildDumps(h, n, depth) ==
    Concat([i \in 1..Len(h[n].content) |-> dump(h, h[n].content[i], depth)])

\* the depths dump is called with
Depths == {0, 1}

\* a parse that has returned, its tree not yet changed
Parsed == status = "done" /\ ops = 0

\* C13: dump(depth) of a section is its open tag line at depth, the dumps of
\* its children at depth + 1 in content order, and the close tag line at the
\* depth of the open tag only if the section has a child: a section without
\* children dumps as the open tag line alone.  The root dumps its children
\* at its own depth.
C13_SectionDump ==
    Parsed =>
        /\ \A n \in Sections(heap), depth \in Depths :
               dump(heap, n, depth) =
                   OpenTag(heap, n, depth) \o ChildDumps(heap, n, depth + 1)
                       \o (IF heap[n].content # <<>>
                           THEN CloseTag(heap, n, depth) ELSE <<>>)
        /\ dump(heap, Root, 0) = ChildDumps(heap, Root, 0)

=============================================================================
